---- MODULE Spec2Model ----
(***************************************************************************)
(* Model of the Cursor chat-log extractor (logExtractor):                  *)
(*   remapScriptExtension, sanitizeFilename, formatUserMessageV2,          *)
(*   formatAiMessageV2 and extractAndSaveCursorChatLogs.                   *)
(*                                                                         *)
(* A JavaScript string is modelled as a sequence of one-character strings, *)
(* so that length, slicing, substring search, case folding and extension   *)
(* extraction are computed, not assumed.                                   *)
(***************************************************************************)
EXTENDS Integers, Sequences, FiniteSets, TLC

\* ------------------------------------------------------------------------
\* Bounds of the model
\* ------------------------------------------------------------------------
MaxExtLen == 3
MaxApply == 2
MaxRows == 2
MaxMsgs == 2
MaxCands == 2

\* ------------------------------------------------------------------------
\* String primitives
\* ------------------------------------------------------------------------
UpperChars == {"L", "O", "G", "T", "X", "M", "D", "C", "S", "V", "P", "Y", "J"}

\* String.prototype.toLowerCase on one character
LowerChar(c) ==
    CASE c = "L" -> "l" [] c = "O" -> "o" [] c = "G" -> "g" [] c = "T" -> "t"
      [] c = "X" -> "x" [] c = "M" -> "m" [] c = "D" -> "d" [] c = "C" -> "c"
      [] c = "S" -> "s" [] c = "V" -> "v" [] c = "P" -> "p" [] c = "Y" -> "y"
      [] c = "J" -> "j" [] OTHER -> c

toLowerCase(s) == [i \in 1..Len(s) |-> LowerChar(s[i])]

\* the string of n characters c
Repeat(c, n) == [i \in 1..n |-> c]

\* String.prototype.slice(0, n) / substring(0, n)
Take(s, n) == SubSeq(s, 1, IF Len(s) < n THEN Len(s) ELSE n)

\* String.prototype.includes
includes(s, sub) ==
    \E i \in 0..(Len(s) - Len(sub)) : SubSeq(s, i + 1, i + Len(sub)) = sub

\* index of the last occurrence of character c in s, 0 when there is none
LastIndexOf(s, c) ==
    IF \E i \in 1..Len(s) : s[i] = c
    THEN CHOOSE i \in 1..Len(s) : s[i] = c /\ \A j \in (i + 1)..Len(s) : s[j] # c
    ELSE 0

\* decimal rendering of a small natural number
Digit(n) == CASE n = 0 -> "0" [] n = 1 -> "1" [] n = 2 -> "2" [] n = 3 -> "3"
              [] n = 4 -> "4" [] n = 5 -> "5" [] n = 6 -> "6" [] n = 7 -> "7"
              [] n = 8 -> "8" [] n = 9 -> "9"

RECURSIVE NumToString(_)
NumToString(n) == IF n < 10 THEN <<Digit(n)>>
                  ELSE NumToString(n \div 10) \o <<Digit(n % 10)>>

\* ------------------------------------------------------------------------
\* path.basename / path.extname / path.join (posix)
\* ------------------------------------------------------------------------
basename(p) == SubSeq(p, LastIndexOf(p, "/") + 1, Len(p))

extname(p) ==
    LET From(b, d) == IF d <= 1 THEN <<>>
                      ELSE IF Len(b) = 2 /\ b[1] = "." THEN <<>>
                      ELSE SubSeq(b, d, Len(b))
        Of(b) == From(b, LastIndexOf(b, "."))
    IN  Of(basename(p))

pathJoin(dir, file) == dir \o <<"/">> \o file

\* ------------------------------------------------------------------------
\* remapScriptExtension
\* ------------------------------------------------------------------------
allowed == { <<".", "l", "o", "g">>, <<".", "t", "x", "t">>,
             <<".", "m", "d">>, <<".", "c", "s", "v">> }

txt == <<"t", "x", "t">>

remapScriptExtension_CaseSensitive(ext) ==
    IF ext = <<>> THEN ext
    ELSE IF ext \in allowed THEN ext
    ELSE ext \o txt

remapScriptExtension(ext) ==
    IF ext = <<>> THEN ext
    ELSE IF toLowerCase(ext) \in allowed THEN ext
    ELSE ext \o txt

\* const ext = path.extname(name);
\* if (ext) name = name.slice(0, -ext.length) + remapScriptExtension(ext);
RemapFileName(name) ==
    LET Replace(ext) == IF ext # <<>>
                        THEN SubSeq(name, 1, Len(name) - Len(ext)) \o remapScriptExtension(ext)
                        ELSE name
    IN  Replace(extname(name))

\* a || b on strings: a unless it is empty
OrElse(a, b) == IF a # <<>> THEN a ELSE b

\* ------------------------------------------------------------------------
\* More string helpers used by the formatters
\* ------------------------------------------------------------------------
IsSpace(c) == c = " " \/ c = "\n"

\* String.prototype.trim
RECURSIVE TrimLeft(_)
TrimLeft(s) == IF s # <<>> /\ IsSpace(Head(s)) THEN TrimLeft(Tail(s)) ELSE s

RECURSIVE TrimRight(_)
TrimRight(s) == IF s # <<>> /\ IsSpace(s[Len(s)])
                THEN TrimRight(SubSeq(s, 1, Len(s) - 1)) ELSE s

trim(s) == TrimRight(TrimLeft(s))

\* String.prototype.split('\n')
RECURSIVE splitLines(_)
splitLines(s) ==
    IF \E i \in 1..Len(s) : s[i] = "\n"
    THEN LET i == CHOOSE k \in 1..Len(s) : s[k] = "\n" /\ \A j \in 1..(k - 1) : s[j] # "\n"
         IN  <<SubSeq(s, 1, i - 1)>> \o splitLines(SubSeq(s, i + 1, Len(s)))
    ELSE <<s>>

\* Array.prototype.filter / map over a sequence of strings
RECURSIVE TrimmedNonEmpty(_)
TrimmedNonEmpty(ls) ==
    IF ls = <<>> THEN <<>>
    ELSE (IF trim(Head(ls)) # <<>> THEN <<trim(Head(ls))>> ELSE <<>>)
         \o TrimmedNonEmpty(Tail(ls))

\* characters kept by the /[^\p{L}0-9_\-\. ]+/gu class of sanitizeFilename
Letters == {"a", "b", "c", "d", "e", "f", "g", "h", "i", "j", "k", "l", "m",
            "n", "o", "p", "q", "r", "s", "t", "u", "v", "w", "x", "y", "z"}
            \cup UpperChars
Digits == {"0", "1", "2", "3", "4", "5", "6", "7", "8", "9"}
FileNameChars == Letters \cup Digits \cup {"_", "-", ".", " "}
\* characters kept by the /[^\p{L}0-9_\- ]+/gu class used for the chat name
SafeNameChars == Letters \cup Digits \cup {"_", "-", " "}

\* s.replace(/[^Keep]+/g, '_'): every maximal run of characters outside Keep
\* becomes one underscore
RECURSIVE ReplaceRunsOutside(_, _)
ReplaceRunsOutside(s, Keep) ==
    IF s = <<>> THEN <<>>
    ELSE IF Head(s) \in Keep THEN <<Head(s)>> \o ReplaceRunsOutside(Tail(s), Keep)
    ELSE IF Len(s) >= 2 /\ s[2] \notin Keep THEN ReplaceRunsOutside(Tail(s), Keep)
    ELSE <<"_">> \o ReplaceRunsOutside(Tail(s), Keep)

\* s.replace(/\s+/g, '_')
RECURSIVE ReplaceSpaceRuns(_)
ReplaceSpaceRuns(s) ==
    IF s = <<>> THEN <<>>
    ELSE IF ~IsSpace(Head(s)) THEN <<Head(s)>> \o ReplaceSpaceRuns(Tail(s))
    ELSE IF Len(s) >= 2 /\ IsSpace(s[2]) THEN ReplaceSpaceRuns(Tail(s))
    ELSE <<"_">> \o ReplaceSpaceRuns(Tail(s))

sanitizeFilename(name) == Take(ReplaceRunsOutside(basename(name), FileNameChars), 100)

\* ------------------------------------------------------------------------
\* String literals of the source
\* ------------------------------------------------------------------------
Lit ==
  [ tool_call_ |-> <<"t", "o", "o", "l", "_", "c", "a", "l", "l", "_">>,  \* line 295
    json |-> <<".", "j", "s", "o", "n">>,  \* line 295
    code_block_ |-> <<"c", "o", "d", "e", "_", "b", "l", "o", "c", "k", "_">>,  \* line 364
    code_block_inline_ |-> <<"c", "o", "d", "e", "_", "b", "l", "o", "c", "k", "_", "i", "n", "l", "i", "n", "e", "_">>,  \* line 376
    unknown_ |-> <<"u", "n", "k", "n", "o", "w", "n", "_">>,  \* line 363
    unknown |-> <<"u", "n", "k", "n", "o", "w", "n">>,  \* line 257
    idx |-> <<"_", "i", "d", "x">>,  \* line 364
    v |-> <<"_", "v">>,  \* line 364
    log |-> <<"l", "o", "g">>,  \* line 298
    dotlog |-> <<".", "l", "o", "g">>,  \* line 507
    file |-> <<"f", "i", "l", "e">>,  \* line 362
    chat |-> <<"c", "h", "a", "t">>,  \* line 507
    nodate |-> <<"n", "o", "d", "a", "t", "e">>,  \* line 498
    details |-> <<"_", "d", "e", "t", "a", "i", "l", "s">>,  \* line 508
    composerData |-> <<"c", "o", "m", "p", "o", "s", "e", "r", "D", "a", "t", "a", ":">>,  \* line 455
    NA |-> <<"N", "/", "A">>,  \* line 308
    inline_fallback |-> <<"i", "n", "l", "i", "n", "e", "_", "f", "a", "l", "l", "b", "a", "c", "k">>,  \* line 372
    found_in_data |-> <<"f", "o", "u", "n", "d", "_", "i", "n", "_", "d", "a", "t", "a">>,  \* line 358
    inline_unknown |-> <<"i", "n", "l", "i", "n", "e", "/", "u", "n", "k", "n", "o", "w", "n">>,  \* line 385
    empty_message |-> <<"<", "e", "m", "p", "t", "y", " ", "m", "e", "s", "s", "a", "g", "e", ">">>,  \* line 211
    epoch_minute |-> <<"0", "1", "-", "0", "1", "-", "1", "9", "7", "0", "_", "0", "0", "-", "0", "0", "-">>,  \* line 499
    out |-> <<"o", "u", "t">>,  \* line 445
    toolCallId |-> <<"t", "o", "o", "l", "C", "a", "l", "l", "I", "d">>,  \* line 256
    status |-> <<"s", "t", "a", "t", "u", "s">>,  \* line 289
    name |-> <<"n", "a", "m", "e">>,  \* line 257
    result |-> <<"r", "e", "s", "u", "l", "t">>,  \* line 287
    error |-> <<"e", "r", "r", "o", "r">>,  \* line 288
    ToolID_undefined |-> <<"T", "o", "o", "l", "I", "D", "_", "u", "n", "d", "e", "f", "i", "n", "e", "d">>,  \* line 257
    ellipsis |-> <<".", ".", ".">>,  \* line 276
    unknown_file |-> <<"u", "n", "k", "n", "o", "w", "n", " ", "f", "i", "l", "e">>,  \* line 420
    no_message |-> <<"n", "o", " ", "m", "e", "s", "s", "a", "g", "e">>,  \* line 423
    User |-> <<"U", "s", "e", "r">>,  \* line 210
    AI |-> <<"A", "I">>,  \* line 231
    ItemTable |-> <<"I", "t", "e", "m", "T", "a", "b", "l", "e">>,  \* line 456
    cursorDiskKV |-> <<"c", "u", "r", "s", "o", "r", "D", "i", "s", "k", "K", "V">>,  \* line 466
    INLINE_DETAILS |-> <<"I", "N", "L", "I", "N", "E", " ", "D", "E", "T", "A", "I", "L", "S">>,  \* line 265
    no_path |-> <<"n", "o", " ", "p", "a", "t", "h">> ]  \* line 408


\* ------------------------------------------------------------------------
\* Data shapes.  An absent optional string is <<>>, an absent optional
\* number is -1, an absent optional object or list is the empty sequence or
\* a flag.
\*   ToolCallInfo     [toolCallId, extra]            (extra: other keys exist)
\*   ToolCallData     [toolCallId, name, status, result, error]
\*   CodeBlockMeta    [external, fsPath, version, codeBlockIdx, languageId, content]
\*   CodeBlockDetails [fsPath, version, content, languageId, status, codeBlockIdx]
\*   Bubble           [type, isThought, isCapabilityIteration, text, summary,
\*                     hasCapabilitiesRan, capabilitiesRan, codeBlocks,
\*                     multiFileLinterErrors]
\*   FormattedLine    [type, index, parts, details]
\*     index   the number printed in "[index]" at the head of the line, 0 when
\*             the line carries none
\*     parts   the interpolated values of the line's template, in order
\*     details {} or {[filePath |-> ..., data |-> ...]}
\* ------------------------------------------------------------------------
detailThreshold == 300

Line(type, index, parts, details) ==
    [type |-> type, index |-> index, parts |-> parts, details |-> details]

NoDetails == {}
Details(filePath, data) == {[filePath |-> filePath, data |-> data]}

\* JSON.stringify(value, null, 2) of an object whose present fields are
\* strings without characters that need escaping
JsonField(key, val) ==
    <<" ", " ", "\"">> \o key \o <<"\"", ":", " ", "\"">> \o val \o <<"\"">>

RECURSIVE JoinFields(_)
JoinFields(fs) ==
    IF fs = <<>> THEN <<>>
    ELSE IF Len(fs) = 1 THEN Head(fs) \o <<"\n">>
    ELSE Head(fs) \o <<",", "\n">> \o JoinFields(Tail(fs))

PresentFields(toolData) ==
    (IF toolData.toolCallId # <<>> THEN <<JsonField(Lit.toolCallId, toolData.toolCallId)>> ELSE <<>>)
    \o (IF toolData.name # <<>> THEN <<JsonField(Lit.name, toolData.name)>> ELSE <<>>)
    \o (IF toolData.status # <<>> THEN <<JsonField(Lit.status, toolData.status)>> ELSE <<>>)
    \o (IF toolData.result # <<>> THEN <<JsonField(Lit.result, toolData.result)>> ELSE <<>>)
    \o (IF toolData.error # <<>> THEN <<JsonField(Lit.error, toolData.error)>> ELSE <<>>)

JSONstringify(toolData) ==
    LET Object(fs) == IF fs = <<>> THEN <<"{", "}">>
                      ELSE <<"{", "\n">> \o JoinFields(fs) \o <<"}">>
    IN  Object(PresentFields(toolData))

\* s.substring(0, n) followed by '...' when s is longer than n
Preview(s, n) == Take(s, n) \o (IF Len(s) > n THEN Lit.ellipsis ELSE <<>>)

\* ------------------------------------------------------------------------
\* formatUserMessageV2
\* ------------------------------------------------------------------------
formatUserMessageV2(msg, index) ==
    LET text == IF msg.text # <<>> THEN msg.text ELSE Lit.empty_message
    IN  << Line("text", index, <<Lit.User, trim(text)>>, NoDetails) >>

\* ------------------------------------------------------------------------
\* formatAiMessageV2.  Each numbered section of the function maps an
\* accumulator [lines, contentAdded] to the next one.
\* ------------------------------------------------------------------------
\* if (!contentAdded && lines.length === 0) lines.push({type:'text', content: basePrefix})
WithBasePrefix(acc, index) ==
    IF ~acc.contentAdded /\ acc.lines = <<>>
    THEN <<Line("text", index, <<Lit.AI>>, NoDetails)>>
    ELSE acc.lines

\* 1. Basic AI text
AiText(msg, index) ==
    IF trim(msg.text) # <<>>
    THEN [lines |-> <<Line("text", index, <<Lit.AI, trim(msg.text)>>, NoDetails)>>,
          contentAdded |-> TRUE]
    ELSE [lines |-> <<>>, contentAdded |-> FALSE]

\* 2. Cached summary
RECURSIVE SummaryLines(_)
SummaryLines(ls) ==
    IF ls = <<>> THEN <<>>
    ELSE <<Line("summary", 0, <<Head(ls)>>, NoDetails)>> \o SummaryLines(Tail(ls))

AiSummary(msg, index, acc) ==
    IF msg.summary # <<>>
    THEN [lines |-> WithBasePrefix(acc, index)
                    \o <<Line("summary", 0, <<>>, NoDetails)>>
                    \o SummaryLines(TrimmedNonEmpty(splitLines(msg.summary))),
          contentAdded |-> TRUE]
    ELSE acc

\* 3. Tool calls (using bubbleDataMap)
\* if (detailDataLength < detailThreshold) ... inline ... else ... file
ToolInline_Inclusive(detailDataLength) == detailDataLength <= detailThreshold

ToolInline(detailDataLength) == detailDataLength < detailThreshold

\* the inline branch: header line, then one line per field that exists
ToolInlineLines(toolData, toolName, toolCallId) ==
    <<Line("tool_inline", 0, <<toolName, toolCallId, Lit.INLINE_DETAILS>>, NoDetails)>>
    \o (IF toolData.result # <<>>
        THEN <<Line("tool_inline", 0, <<Lit.result, Preview(toolData.result, 150)>>, NoDetails)>>
        ELSE <<>>)
    \o (IF toolData.error # <<>>
        THEN <<Line("tool_inline", 0, <<Lit.error, toolData.error>>, NoDetails)>>
        ELSE <<>>)
    \o (IF toolData.status # <<>>
        THEN <<Line("tool_inline", 0, <<Lit.status, toolData.status>>, NoDetails)>>
        ELSE <<>>)

\* the file branch: one reference line carrying the payload
ToolRefLine(toolData, toolName, toolCallId, detailDataString, chatSubDir, chatSubDirBaseName) ==
    LET detailFileName == Lit.tool_call_ \o toolCallId \o Lit.json
    IN  Line("tool_ref", 0,
             <<toolName, toolCallId, toolData.status, chatSubDirBaseName, detailFileName>>,
             Details(pathJoin(chatSubDir, detailFileName), detailDataString))

\* body of "for (const callInfo of calls)"
ToolCall(callInfo, index, bubbleDataMap, chatSubDir, chatSubDirBaseName, acc) ==
    LET toolCallId == callInfo.toolCallId
        Push(ls)   == [lines |-> WithBasePrefix(acc, index) \o ls, contentAdded |-> TRUE]
        Found(toolData, toolName, detailDataString) ==
            Push(IF ToolInline(Len(detailDataString))
                 THEN ToolInlineLines(toolData, toolName, toolCallId)
                 ELSE <<ToolRefLine(toolData, toolName, toolCallId,
                                    detailDataString, chatSubDir, chatSubDirBaseName)>>)
        Lookup(toolData) ==
            Found(toolData, OrElse(toolData.name, Lit.ToolID_undefined), JSONstringify(toolData))
    IN  IF toolCallId # <<>> /\ toolCallId \in DOMAIN bubbleDataMap.map
        THEN Lookup(bubbleDataMap.map[toolCallId])
        ELSE IF toolCallId # <<>> \/ callInfo.extra
        THEN Push(<<Line("capability_info", 0,
                         <<OrElse(toolCallId, Lit.NA), toolCallId,
                           (IF callInfo.extra THEN <<"+">> ELSE <<>>)>>,
                         NoDetails)>>)
        ELSE acc

RECURSIVE ToolCallsLoop(_, _, _, _, _, _)
ToolCallsLoop(calls, index, bubbleDataMap, chatSubDir, chatSubDirBaseName, acc) ==
    IF calls = <<>> THEN acc
    ELSE ToolCallsLoop(Tail(calls), index, bubbleDataMap, chatSubDir, chatSubDirBaseName,
                       ToolCall(Head(calls), index, bubbleDataMap, chatSubDir, chatSubDirBaseName, acc))

\* if (msg.capabilitiesRan && bubbleDataMap) { ... }
AiToolCalls(msg, index, bubbleDataMap, chatSubDir, chatSubDirBaseName, acc) ==
    IF msg.hasCapabilitiesRan /\ bubbleDataMap.present
    THEN ToolCallsLoop(msg.capabilitiesRan, index, bubbleDataMap, chatSubDir, chatSubDirBaseName, acc)
    ELSE acc

\* 4. Code blocks
\* Array.prototype.find / findIndex return positions here: the least of the
\* matching positions of the list, 0 when nothing matches (undefined / -1).
FirstIndex(matching) ==
    IF matching = {} THEN 0 ELSE CHOOSE i \in matching : \A j \in matching : i <= j

\* the "FIXED CODE SEARCH LOGIC" block, given the candidates under searchKey
FindCodeBlockDetails_IndexFirst(blocksForKey, version, declaredIdx) ==
    LET blocksWithVersion == {i \in 1..Len(blocksForKey) : blocksForKey[i].version = version}
        byIndex == FirstIndex({i \in blocksWithVersion :
                                  blocksForKey[i].codeBlockIdx = declaredIdx})
    IN  IF declaredIdx # -1 /\ byIndex # 0 THEN byIndex ELSE FirstIndex(blocksWithVersion)

FindCodeBlockDetails(blocksForKey, version, declaredIdx) ==
    LET blocksWithVersion == {i \in 1..Len(blocksForKey) : blocksForKey[i].version = version}
        byVersion == FirstIndex(blocksWithVersion)
        byIndex   == FirstIndex({i \in blocksWithVersion :
                                    blocksForKey[i].codeBlockIdx = declaredIdx})
    IN  IF byVersion # 0 THEN byVersion
        ELSE IF declaredIdx # -1
        THEN IF byIndex # 0 THEN byIndex
             ELSE IF Cardinality(blocksWithVersion) = 1
                  THEN CHOOSE i \in blocksWithVersion : TRUE
                  ELSE 0
        ELSE 0

\* const searchKey = externalUri || fsPath; if (searchKey && codeBlockData[searchKey])
ResolveCodeBlock(blockMeta, codeBlockData) ==
    LET searchKey == IF blockMeta.external # <<>> THEN blockMeta.external ELSE blockMeta.fsPath
        version   == IF blockMeta.version = -1 THEN 0 ELSE blockMeta.version
    IN  IF searchKey # <<>> /\ searchKey \in DOMAIN codeBlockData.map
        THEN LET k == FindCodeBlockDetails(codeBlockData.map[searchKey], version,
                                           blockMeta.codeBlockIdx)
             IN  IF k = 0 THEN {} ELSE {codeBlockData.map[searchKey][k]}
        ELSE {}

LangOf(blockMeta) == OrElse(blockMeta.languageId, Lit.unknown)

\* `.${lang === 'unknown' ? 'log' : lang}`
LangExt(lang) == <<".">> \o (IF lang = Lit.unknown THEN Lit.log ELSE lang)

\* file name of a block resolved from codeBlockData (lines 361-369)
ResolvedFileName_NoRemap(codeBlockDetails, blockMeta, codeBlockIdx, version) ==
    LET targetPath == OrElse(codeBlockDetails.fsPath, blockMeta.fsPath)
    IN  Lit.code_block_
            \o sanitizeFilename(OrElse(targetPath, Lit.unknown_ \o NumToString(codeBlockIdx)))
            \o Lit.idx \o NumToString(codeBlockIdx)
            \o Lit.v \o NumToString(version)
            \o OrElse(extname(OrElse(targetPath, Lit.file)), LangExt(LangOf(blockMeta)))

ResolvedFileName(codeBlockDetails, blockMeta, codeBlockIdx, version) ==
    RemapFileName(ResolvedFileName_NoRemap(codeBlockDetails, blockMeta, codeBlockIdx, version))

\* file name of a block taken from the bubble's own content (lines 375-376)
InlineFileName(blockMeta, codeBlockIdx, version) ==
    Lit.code_block_inline_ \o NumToString(codeBlockIdx) \o Lit.v \o NumToString(version)
        \o LangExt(LangOf(blockMeta))

\* if (content.length >= detailThreshold || content.split('\n').length > 10)
InlineNeedsFile_Exclusive(content) ==
    Len(content) > detailThreshold \/ Len(splitLines(content)) > 10

InlineNeedsFile(content) ==
    Len(content) >= detailThreshold \/ Len(splitLines(content)) > 10

\* body of "for (const [idx, blockMeta] of msg.codeBlocks.entries())"
CodeBlock(blockMeta, idx, index, codeBlockData, chatSubDir, chatSubDirBaseName, acc) ==
    LET lang         == LangOf(blockMeta)
        codeBlockIdx == IF blockMeta.codeBlockIdx = -1 THEN idx ELSE blockMeta.codeBlockIdx
        version      == IF blockMeta.version = -1 THEN 0 ELSE blockMeta.version
        number       == NumToString(codeBlockIdx + 1)
        Push(ls)     == [lines |-> WithBasePrefix(acc, index) \o ls, contentAdded |-> TRUE]
        CodeRef(status, displayPath, detailFileName, content) ==
            Push(<<Line("code_ref", 0,
                        <<number, status, lang, displayPath, chatSubDirBaseName, detailFileName>>,
                        Details(pathJoin(chatSubDir, detailFileName), content))>>)
        Resolved(codeBlockDetails) ==
            CodeRef(OrElse(codeBlockDetails.status, Lit.found_in_data),
                    OrElse(blockMeta.fsPath, OrElse(codeBlockDetails.fsPath, Lit.inline_unknown)),
                    ResolvedFileName(codeBlockDetails, blockMeta, codeBlockIdx, version),
                    codeBlockDetails.content)
        Embedded(displayPath) ==
            IF blockMeta.content # <<>>
            THEN IF InlineNeedsFile(blockMeta.content)
                 THEN CodeRef(Lit.inline_fallback, displayPath,
                              InlineFileName(blockMeta, codeBlockIdx, version), blockMeta.content)
                 ELSE Push(<<Line("code_inline", 0,
                                  <<number, Lit.inline_fallback, lang, displayPath>>, NoDetails),
                             Line("code_inline", 0, <<lang, blockMeta.content>>, NoDetails)>>)
            ELSE Push(<<Line("code_not_found", 0, <<number, lang, displayPath>>, NoDetails)>>)
        Choose(found) ==
            IF found # {}
            THEN Resolved(CHOOSE cb \in found : TRUE)
            ELSE Embedded(OrElse(blockMeta.fsPath, Lit.inline_unknown))
    IN  Choose(ResolveCodeBlock(blockMeta, codeBlockData))

RECURSIVE CodeBlocksLoop(_, _, _, _, _, _, _)
CodeBlocksLoop(blocks, idx, index, codeBlockData, chatSubDir, chatSubDirBaseName, acc) ==
    IF blocks = <<>> THEN acc
    ELSE CodeBlocksLoop(Tail(blocks), idx + 1, index, codeBlockData, chatSubDir, chatSubDirBaseName,
                        CodeBlock(Head(blocks), idx, index, codeBlockData,
                                  chatSubDir, chatSubDirBaseName, acc))

\* the "codeBlockData missing" branch: one header line, one line per block
RECURSIVE BlockListing(_)
BlockListing(blocks) ==
    IF blocks = <<>> THEN <<>>
    ELSE <<Line("text", 0,
                <<LangOf(Head(blocks)),
                  (IF Head(blocks).fsPath # <<>> THEN Head(blocks).fsPath ELSE Lit.no_path)>>,
                NoDetails)>>
         \o BlockListing(Tail(blocks))

AiCodeBlocks(msg, index, codeBlockData, chatSubDir, chatSubDirBaseName, acc) ==
    IF msg.codeBlocks # <<>> /\ codeBlockData.present
    THEN CodeBlocksLoop(msg.codeBlocks, 0, index, codeBlockData, chatSubDir, chatSubDirBaseName, acc)
    ELSE IF msg.codeBlocks # <<>>
    THEN [lines |-> WithBasePrefix(acc, index)
                    \o <<Line("text", 0, <<>>, NoDetails)>>
                    \o BlockListing(msg.codeBlocks),
          contentAdded |-> TRUE]
    ELSE acc

\* 5. Linter errors
RECURSIVE ErrorLines(_, _)
ErrorLines(filePath, errors) ==
    IF errors = <<>> THEN <<>>
    ELSE <<Line("linter_error", 0,
                <<filePath, (IF Head(errors) # <<>> THEN Head(errors) ELSE Lit.no_message)>>,
                NoDetails)>>
         \o ErrorLines(filePath, Tail(errors))

RECURSIVE FileErrorLines(_)
FileErrorLines(groups) ==
    IF groups = <<>> THEN <<>>
    ELSE ErrorLines((IF Head(groups).relativeWorkspacePath # <<>>
                     THEN Head(groups).relativeWorkspacePath ELSE Lit.unknown_file),
                    Head(groups).errors)
         \o FileErrorLines(Tail(groups))

AiLinterErrors(msg, index, acc) ==
    IF msg.multiFileLinterErrors # <<>>
    THEN [lines |-> WithBasePrefix(acc, index)
                    \o <<Line("linter_error", 0, <<>>, NoDetails)>>
                    \o FileErrorLines(msg.multiFileLinterErrors),
          contentAdded |-> TRUE]
    ELSE acc

formatAiMessageV2(msg, index, bubbleDataMap, codeBlockData, chatSubDir, chatSubDirBaseName) ==
    LET Result(acc) ==
            IF acc.lines = <<>>
               \/ (Len(acc.lines) = 1 /\ acc.lines[1].type = "text"
                   /\ acc.lines[1].parts = <<Lit.AI>>
                   /\ acc.lines[1].index = index /\ ~acc.contentAdded)
            THEN <<>>
            ELSE acc.lines
    IN  Result(AiLinterErrors(msg, index,
               AiCodeBlocks(msg, index, codeBlockData, chatSubDir, chatSubDirBaseName,
               AiToolCalls(msg, index, bubbleDataMap, chatSubDir, chatSubDirBaseName,
               AiSummary(msg, index,
               AiText(msg, index))))))

\* ------------------------------------------------------------------------
\* extractAndSaveCursorChatLogs: file names of one conversation
\*   Row            [key, hasValue, rawValue, parses, fullData]
\*   fullData       [hasConversation, iterable, nMsgs, composerId, name, lastUpdatedAt,
\*                   bubbleDataMap, codeBlockData]
\*   bubbleDataMap  [present, map]   map: toolCallId -> ToolCallData
\*   codeBlockData  [present, map]   map: key -> sequence of CodeBlockDetails
\* The messages of a conversation are read one at a time while the loop over
\* fullData.conversation runs; nMsgs is the length of that list.
\* ------------------------------------------------------------------------
outputDir == Lit.out

composerIdPrefixLen == 8

safeNameLen == 50

\* (fullData.name || 'chat').replace(...).replace(/\s+/g, '_').slice(0, 50)
safeName(fullData) ==
    Take(ReplaceSpaceRuns(ReplaceRunsOutside(
            (IF fullData.name # <<>> THEN fullData.name ELSE Lit.chat), SafeNameChars)),
         safeNameLen)

\* n.toString().padStart(2, '0')
pad(n) == IF n < 10 THEN <<"0">> \o NumToString(n) ELSE NumToString(n)

\* dd-mm-yyyy_hh-mm-ss in UTC of a timestamp in milliseconds; the model only
\* draws timestamps inside the first minute of the epoch
dateStr(fullData) ==
    IF fullData.lastUpdatedAt = 0 THEN Lit.nodate
    ELSE Lit.epoch_minute \o pad((fullData.lastUpdatedAt \div 1000) % 60)

\* (fullData.composerId || key.replace('composerData:', '')).substring(0, 8)
composerIdShort(row) ==
    Take((IF row.fullData.composerId # <<>> THEN row.fullData.composerId
          ELSE SubSeq(row.key, Len(Lit.composerData) + 1, Len(row.key))),
         composerIdPrefixLen)

FileStem(row) ==
    dateStr(row.fullData) \o <<"_">> \o safeName(row.fullData) \o <<"_">> \o composerIdShort(row)

chatSubDirName(row) == FileStem(row) \o Lit.details

chatDirPath(row) == pathJoin(outputDir, chatSubDirName(row))

remappedLogFileName(row) == RemapFileName(FileStem(row) \o Lit.dotlog)

mainLogFilePath(row) == pathJoin(outputDir, remappedLogFileName(row))

\* the header block pushed before the message loop (lines 522-531)
HeaderName(name) == Line("header", 0, <<name>>, NoDetails)

Header(row, table, projectId) ==
    << HeaderName(<<"C">>),
       Line("header", 0, <<<<"F">>, remappedLogFileName(row)>>, NoDetails),
       Line("header", 0, <<<<"T">>, table>>, NoDetails),
       Line("header", 0, <<<<"K">>, row.key>>, NoDetails),
       Line("header", 0, <<<<"N">>, (IF row.fullData.name # <<>> THEN row.fullData.name ELSE Lit.NA)>>, NoDetails),
       Line("header", 0, <<<<"L">>, (IF row.fullData.lastUpdatedAt # 0
                                     THEN NumToString(row.fullData.lastUpdatedAt) ELSE Lit.NA)>>, NoDetails),
       Line("header", 0, <<<<"I">>, (IF row.fullData.composerId # <<>>
                                     THEN row.fullData.composerId ELSE Lit.NA)>>, NoDetails),
       Line("header", 0, <<<<"P">>, projectId>>, NoDetails),
       HeaderName(<<"S">>),
       Line("blank", 0, <<>>, NoDetails) >>

IsTableLine(line) == line.type = "header" /\ line.parts # <<>> /\ line.parts[1] = <<"T">>

DetailsDirectoryLine(row) == Line("header", 0, <<<<"D">>, chatSubDirName(row)>>, NoDetails)

EndLine == Line("header", 0, <<<<"E">>>>, NoDetails)

\* mainLogContentLines.splice(headerIndex, 0, `Details Directory: ...`)
InsertAt(s, k, e) == SubSeq(s, 1, k - 1) \o <<e>> \o SubSeq(s, k, Len(s))

\* mainLogContentLines.push(line.content): the text of the line, without its payload
ContentOf(line) == Line(line.type, line.index, line.parts, NoDetails)

\* ------------------------------------------------------------------------
\* State of one call of extractAndSaveCursorChatLogs
\* ------------------------------------------------------------------------
VARIABLES
    pc,                    \* position in the function
    projectIdentifier,     \* argument
    itemTable, kvTable,    \* the two backing tables: [kind, n]
    queriedTable,          \* queriedTable
    rowsLeft,              \* rows of `rows` not yet visited
    usedKeys,              \* keys of the rows visited so far
    row,                   \* the row of the current iteration
    msgsLeft,              \* messages of fullData.conversation not yet visited
    messageIndex,
    hasNonEmptyMessages,
    mainLogContentLines,
    hasDetailFiles,
    detailDirEnsured,
    detailWritePromises,   \* sequence of [filePath, data, state]
    files,                 \* file system: path -> content
    dirs,                  \* file system: directories created
    savedFilePaths,
    outcome,               \* "running", "returned" or "thrown"
    processed,             \* history: the message visited last, <<>> before the first
    rowLog,                \* history: per visited row
    exports,               \* history: [row, path] per written main transcript
    queries,               \* history: the tables queried, in order
    ext, remapped          \* remapScriptExtension: an argument, and the results of
                           \* applying the function to it again and again

vars == << pc, projectIdentifier, itemTable, kvTable, queriedTable, rowsLeft, usedKeys,
           row, msgsLeft, messageIndex, hasNonEmptyMessages, mainLogContentLines,
           hasDetailFiles, detailDirEnsured, detailWritePromises, files, dirs,
           savedFilePaths, outcome, processed, rowLog, exports, queries, ext, remapped >>

convVars == << msgsLeft, messageIndex, hasNonEmptyMessages, mainLogContentLines,
               hasDetailFiles, detailDirEnsured, detailWritePromises, processed >>

inputVars == << projectIdentifier, itemTable, kvTable >>

remapVars == << ext, remapped >>

NoMap == [present |-> FALSE, map |-> <<>>]

NoRow == [key |-> <<>>, hasValue |-> FALSE, rawValue |-> <<>>, parses |-> FALSE,
          fullData |-> [hasConversation |-> FALSE, iterable |-> FALSE, nMsgs |-> 0,
                        composerId |-> <<>>,
                        name |-> <<>>, lastUpdatedAt |-> 0,
                        bubbleDataMap |-> NoMap, codeBlockData |-> NoMap]]

\* what the visit of one message may change
Snapshot == [lines |-> Len(mainLogContentLines), index |-> messageIndex,
             writes |-> Len(detailWritePromises), hasDetailFiles |-> hasDetailFiles,
             dirs |-> dirs]

\* what the visit of one row may change outside its own working state
RowSnapshot == [files |-> files, dirs |-> dirs, saved |-> savedFilePaths]

WriteFile(fs, filePath, data) ==
    [p \in (DOMAIN fs) \cup {filePath} |-> IF p = filePath THEN data ELSE fs[p]]

\* ---- the message loop body (lines 535-565) ----
\* if (msg.isThought || msg.isCapabilityIteration) continue;
IsTransient_ThoughtOnly(msg) == msg.isThought

IsTransient(msg) == msg.isThought \/ msg.isCapabilityIteration

FormatMessage(msg, index, r) ==
    IF msg.type = 1 THEN formatUserMessageV2(msg, index)
    ELSE IF msg.type = 2
    THEN formatAiMessageV2(msg, index, r.fullData.bubbleDataMap, r.fullData.codeBlockData,
                           chatDirPath(r), chatSubDirName(r))
    ELSE <<>>

\* "for (const line of formattedLines)": st = [lines, hasDetailFiles, ensured,
\* dirs, writes, fails]; fails is the number of ensureDir attempts that still fail
LineStep(line, st, dir) ==
    LET pushed == [st EXCEPT !.lines = Append(st.lines, ContentOf(line))]
    IN  IF line.details = {} THEN pushed
        ELSE LET d == CHOOSE x \in line.details : TRUE
                 flagged == [pushed EXCEPT !.hasDetailFiles = TRUE]
                 write == [filePath |-> d.filePath, data |-> d.data, state |-> "pending"]
             IN  IF ~st.ensured /\ st.fails > 0
                 THEN [flagged EXCEPT !.fails = st.fails - 1]
                 ELSE [flagged EXCEPT !.ensured = TRUE,
                                      !.dirs = st.dirs \cup {dir},
                                      !.writes = Append(st.writes, write)]

RECURSIVE LinesLoop(_, _, _)
LinesLoop(lines, st, dir) ==
    IF lines = <<>> THEN st
    ELSE LinesLoop(Tail(lines), LineStep(Head(lines), st, dir), dir)

DetailCount(lines) == Cardinality({i \in 1..Len(lines) : lines[i].details # {}})

MessageIndexAfter_Always(index, formattedLines) == index + 1

MessageIndexAfter(index, formattedLines) ==
    IF formattedLines # <<>> THEN index + 1 ELSE index

ProcessMessage(MsgPool) ==
    /\ pc = "msgs"
    /\ msgsLeft > 0
    /\ \E msg \in MsgPool :
       \E formattedLines \in {IF IsTransient(msg) THEN <<>>
                              ELSE FormatMessage(msg, messageIndex, row)} :
       \E fails \in 0..(IF detailDirEnsured THEN 0 ELSE DetailCount(formattedLines)) :
       \E st \in {LinesLoop(formattedLines,
                             [lines |-> mainLogContentLines, hasDetailFiles |-> hasDetailFiles,
                              ensured |-> detailDirEnsured, dirs |-> dirs,
                              writes |-> detailWritePromises, fails |-> fails],
                             chatDirPath(row))} :
         /\ mainLogContentLines' =
                IF formattedLines # <<>>
                THEN Append(st.lines, Line("blank", 0, <<>>, NoDetails))
                ELSE mainLogContentLines
         /\ hasNonEmptyMessages' = (hasNonEmptyMessages \/ formattedLines # <<>>)
         /\ messageIndex' = MessageIndexAfter(messageIndex, formattedLines)
         /\ hasDetailFiles' = st.hasDetailFiles
         /\ detailDirEnsured' = st.ensured
         /\ dirs' = st.dirs
         /\ detailWritePromises' = st.writes
         /\ processed' = <<[msg |-> msg, formatted |-> formattedLines, before |-> Snapshot,
                 after |-> [lines |-> Len(mainLogContentLines'),
                            index |-> messageIndex',
                            writes |-> Len(st.writes),
                            hasDetailFiles |-> st.hasDetailFiles,
                            dirs |-> st.dirs]]>>
    /\ msgsLeft' = msgsLeft - 1
    /\ UNCHANGED << pc, inputVars, queriedTable, rowsLeft, usedKeys, row, files,
                    savedFilePaths, outcome, rowLog, exports, queries, remapVars >>

\* ---- the two table queries (lines 454-473) ----
\* A table is [kind, n]: kind "ok" with n matching rows, "absent" (no such
\* table) or "error" (the query fails for another reason).
\* if (rows.length === 0): the second table is tried
NoRows_Never(rowCount) == FALSE

NoRows(rowCount) == rowCount = 0

QueryTables ==
    /\ pc = "start"
    /\ LET rows1 == IF itemTable.kind = "ok" THEN itemTable.n ELSE 0
           table1 == IF itemTable.kind = "ok" THEN Lit.ItemTable ELSE <<>>
       IN  IF itemTable.kind = "error"
           THEN /\ outcome' = "thrown"
                /\ pc' = "done"
                /\ queries' = <<Lit.ItemTable>>
                /\ UNCHANGED << queriedTable, rowsLeft >>
           ELSE IF NoRows(rows1)
           THEN /\ queries' = <<Lit.ItemTable, Lit.cursorDiskKV>>
                /\ IF kvTable.kind = "error"
                   THEN /\ outcome' = "thrown"
                        /\ pc' = "done"
                        /\ UNCHANGED << queriedTable, rowsLeft >>
                   ELSE /\ rowsLeft' = (IF kvTable.kind = "ok" THEN kvTable.n ELSE 0)
                        /\ queriedTable' = (IF kvTable.kind = "ok" THEN Lit.cursorDiskKV ELSE table1)
                        /\ pc' = "rows"
                        /\ UNCHANGED outcome
           ELSE /\ queries' = <<Lit.ItemTable>>
                /\ rowsLeft' = rows1
                /\ queriedTable' = table1
                /\ pc' = "rows"
                /\ UNCHANGED outcome
    /\ UNCHANGED << inputVars, usedKeys, row, convVars, files, dirs, savedFilePaths,
                    rowLog, exports, remapVars >>

\* ---- the head of the row loop (lines 477-533) ----
\* if (!rawValue.includes(projectIdentifier)) continue;
RowBelongs_Prefix(rawValue, projectId) == Take(rawValue, Len(projectId)) = projectId

RowBelongs(rawValue, projectId) == includes(rawValue, projectId)

\* safeJsonParse: undefined for empty data and for text JSON.parse rejects
safeJsonParse(r) == IF r.rawValue # <<>> /\ r.parses THEN {r.fullData} ELSE {}

Accepted(r, projectId) ==
    /\ r.hasValue /\ r.rawValue # <<>>
    /\ RowBelongs(r.rawValue, projectId)
    /\ safeJsonParse(r) # {}
    /\ r.fullData.hasConversation

\* for (const msg of fullData.conversation): a truthy value that is not
\* iterable (an object, a number, true) makes the statement throw a TypeError,
\* which the catch of the call rethrows
Iterable(fullData) == fullData.iterable

NextRow(RowPool) ==
    /\ pc = "rows"
    /\ rowsLeft > 0
    /\ \E r \in RowPool :
         /\ r.key \notin usedKeys
         /\ usedKeys' = usedKeys \cup {r.key}
         /\ row' = r
         /\ IF Accepted(r, projectIdentifier)
            THEN /\ IF Iterable(r.fullData)
                    THEN pc' = "msgs" /\ UNCHANGED outcome
                    ELSE pc' = "done" /\ outcome' = "thrown"
                 /\ msgsLeft' = r.fullData.nMsgs
                 /\ mainLogContentLines' = Header(r, queriedTable, projectIdentifier)
                 /\ rowLog' = Append(rowLog, [row |-> r, accepted |-> TRUE, done |-> FALSE,
                                              rendered |-> FALSE, exported |-> FALSE,
                                              before |-> RowSnapshot, after |-> RowSnapshot])
            ELSE /\ pc' = "rows"
                 /\ UNCHANGED outcome
                 /\ msgsLeft' = 0
                 /\ mainLogContentLines' = <<>>
                 /\ rowLog' = Append(rowLog, [row |-> r, accepted |-> FALSE, done |-> TRUE,
                                              rendered |-> FALSE, exported |-> FALSE,
                                              before |-> RowSnapshot, after |-> RowSnapshot])
    /\ rowsLeft' = rowsLeft - 1
    /\ messageIndex' = 1
    /\ hasNonEmptyMessages' = FALSE
    /\ hasDetailFiles' = FALSE
    /\ detailDirEnsured' = FALSE
    /\ detailWritePromises' = <<>>
    /\ processed' = <<>>
    /\ UNCHANGED << inputVars, queriedTable, files, dirs, savedFilePaths,
                    exports, queries, remapVars >>

\* history: the entry of the current row is completed
CloseRow(exported) ==
    rowLog' = [rowLog EXCEPT ![Len(rowLog)] =
                  [@ EXCEPT !.done = TRUE, !.rendered = hasNonEmptyMessages,
                            !.exported = exported, !.after = RowSnapshot]]

\* ---- after the message loop (lines 567-578) ----
\* if (!hasNonEmptyMessages) continue;
Discarded_Never(nonEmpty) == FALSE

Discarded(nonEmpty) == ~nonEmpty

FinishConversation ==
    /\ pc = "msgs"
    /\ msgsLeft = 0
    /\ IF Discarded(hasNonEmptyMessages)
       THEN /\ pc' = "rows"
            /\ CloseRow(FALSE)
            /\ UNCHANGED mainLogContentLines
       ELSE /\ pc' = "writeMain"
            /\ LET headerIndex == FirstIndex({i \in 1..Len(mainLogContentLines) :
                                              IsTableLine(mainLogContentLines[i])})
                   withDir == IF hasDetailFiles /\ headerIndex # 0
                              THEN InsertAt(mainLogContentLines, headerIndex,
                                            DetailsDirectoryLine(row))
                              ELSE mainLogContentLines
               IN  mainLogContentLines' = Append(withDir, EndLine)
            /\ rowLog' = [rowLog EXCEPT ![Len(rowLog)].rendered = hasNonEmptyMessages]
    /\ UNCHANGED << inputVars, queriedTable, rowsLeft, usedKeys, row, msgsLeft, messageIndex,
                    hasNonEmptyMessages, hasDetailFiles, detailDirEnsured,
                    detailWritePromises, files, dirs, savedFilePaths, outcome, processed,
                    exports, queries, remapVars >>

\* ---- await fs.writeFile(mainLogFilePath, ...); savedFilePaths.push(...) ----
\* The file holds the lines joined by '\n'; it is kept as the list of lines.
\* Array.prototype.push
ArrayPush_Front(list, e) == <<e>> \o list

ArrayPush(list, e) == Append(list, e)

WriteMain ==
    /\ pc = "writeMain"
    /\ \/ /\ files' = WriteFile(files, mainLogFilePath(row), mainLogContentLines)
          /\ savedFilePaths' = ArrayPush(savedFilePaths, mainLogFilePath(row))
          /\ exports' = Append(exports, [row |-> row, path |-> mainLogFilePath(row)])
          /\ pc' = "await"
          /\ UNCHANGED << outcome, rowLog >>
       \/ /\ outcome' = "thrown"
          /\ pc' = "done"
          /\ UNCHANGED << files, savedFilePaths, exports, rowLog >>
    /\ UNCHANGED << inputVars, queriedTable, rowsLeft, usedKeys, row, convVars, dirs,
                    queries, remapVars >>

\* ---- one fs.writeFile of a side-file settles; a failure is only logged ----
SettleWrite ==
    /\ \E i \in 1..Len(detailWritePromises) :
         /\ detailWritePromises[i].state = "pending"
         /\ \/ /\ detailWritePromises' = [detailWritePromises EXCEPT ![i].state = "written"]
               /\ files' = WriteFile(files, detailWritePromises[i].filePath,
                                     <<detailWritePromises[i].data>>)
            \/ /\ detailWritePromises' = [detailWritePromises EXCEPT ![i].state = "failed"]
               /\ UNCHANGED files
    /\ UNCHANGED << pc, inputVars, queriedTable, rowsLeft, usedKeys, row, msgsLeft,
                    messageIndex, hasNonEmptyMessages, mainLogContentLines, hasDetailFiles,
                    detailDirEnsured, dirs, savedFilePaths, outcome, processed, rowLog,
                    exports, queries, remapVars >>

\* ---- await Promise.all(detailWritePromises) ----
\* every promise carries a .catch, so Promise.all resolves once none is pending
AllSettled_Immediately(promises) == TRUE

AllSettled(promises) == \A i \in 1..Len(promises) : promises[i].state # "pending"

AwaitDetails ==
    /\ pc = "await"
    /\ AllSettled(detailWritePromises)
    /\ pc' = "rows"
    /\ CloseRow(TRUE)
    /\ UNCHANGED << inputVars, queriedTable, rowsLeft, usedKeys, row, convVars, files, dirs,
                    savedFilePaths, outcome, exports, queries, remapVars >>

\* ---- return savedFilePaths ----
Return ==
    /\ pc = "rows"
    /\ rowsLeft = 0
    /\ pc' = "done"
    /\ outcome' = "returned"
    /\ UNCHANGED << inputVars, queriedTable, rowsLeft, usedKeys, row, convVars, files, dirs,
                    savedFilePaths, rowLog, exports, queries, remapVars >>

\* ------------------------------------------------------------------------
\* Inputs the model draws from
\* ------------------------------------------------------------------------
Str ==
  [ id |-> <<"p", "q">>,
    xid |-> <<"x", "p", "q">>,
    noid |-> <<"q", "p">>,
    x |-> <<"x">>,
    hi |-> <<"h", "i">>,
    blank |-> <<" ">>,
    a_space_b |-> <<"a", " ", "b">>,
    a_slash_b |-> <<"a", "/", "b">>,
    t1 |-> <<"t", "1">>,
    t2 |-> <<"t", "2">>,
    done |-> <<"d", "o", "n", "e">>,
    two_lines |-> <<"s", "\n", " ", "\n", "u">>,
    t3 |-> <<"t", "3">>,
    t4 |-> <<"t", "4">>,
    a_py |-> <<"a", ".", "p", "y">>,
    n |-> <<"n">>,
    py |-> <<"p", "y">>,
    accepted |-> <<"a", "c", "c", "e", "p", "t", "e", "d">> ]

\* composer ids: the first two agree on their first composerIdPrefixLen characters
Id1 == Repeat("a", composerIdPrefixLen) \o <<"1">>
Id2 == Repeat("a", composerIdPrefixLen) \o <<"2">>
Id3 == <<"z", "z">>

Bubble(type, isThought, isCapabilityIteration, text, summary, hasCaps, caps, blocks, lint) ==
    [type |-> type, isThought |-> isThought, isCapabilityIteration |-> isCapabilityIteration,
     text |-> text, summary |-> summary, hasCapabilitiesRan |-> hasCaps,
     capabilitiesRan |-> caps, codeBlocks |-> blocks, multiFileLinterErrors |-> lint]

ToolCallInfo(toolCallId, extra) == [toolCallId |-> toolCallId, extra |-> extra]

ToolCallData(toolCallId, name, status, result, error) ==
    [toolCallId |-> toolCallId, name |-> name, status |-> status, result |-> result,
     error |-> error]

\* a ToolCallData whose serialization has exactly len characters
ToolDataOfLength(toolCallId, len) ==
    LET bare == ToolCallData(toolCallId, <<>>, Str.done, <<"r">>, <<>>)
    IN  ToolCallData(toolCallId, <<>>, Str.done,
                     Repeat("r", len - Len(JSONstringify(bare)) + 1), <<>>)

FullData(hasConversation, nMsgs, composerId, name, lastUpdatedAt, bubbleDataMap, codeBlockData) ==
    [hasConversation |-> hasConversation, iterable |-> hasConversation, nMsgs |-> nMsgs,
     composerId |-> composerId,
     name |-> name, lastUpdatedAt |-> lastUpdatedAt, bubbleDataMap |-> bubbleDataMap,
     codeBlockData |-> codeBlockData]

Row(key, hasValue, rawValue, parses, fullData) ==
    [key |-> key, hasValue |-> hasValue, rawValue |-> rawValue, parses |-> parses,
     fullData |-> fullData]

\* a record's tool-call mapping with one small and one large detail
SmallAndLarge ==
    [present |-> TRUE,
     map |-> (Str.t1 :> ToolDataOfLength(Str.t1, detailThreshold))
             @@ (Str.t2 :> ToolCallData(Str.t2, <<>>, Str.done, <<>>, <<>>))]

\* ---- rows and messages of the export specification ----
\* two visible messages, one of them with a side-file, and three that render
\* nothing: a transient message that would otherwise yield a side-file, a
\* message of unknown role, an assistant message without content
ExportBubbles ==
    { Bubble(1, FALSE, FALSE, Str.hi, <<>>, FALSE, <<>>, <<>>, <<>>),
      Bubble(2, FALSE, FALSE, <<>>, <<>>, TRUE, <<ToolCallInfo(Str.t1, FALSE)>>, <<>>, <<>>),
      Bubble(2, FALSE, TRUE, Str.hi, <<>>, TRUE, <<ToolCallInfo(Str.t1, FALSE)>>, <<>>, <<>>),
      Bubble(3, FALSE, FALSE, Str.hi, <<>>, FALSE, <<>>, <<>>, <<>>),
      Bubble(2, FALSE, FALSE, Str.blank, <<>>, FALSE, <<>>, <<>>, <<>>) }

Key1 == Lit.composerData \o Id1
Key2 == Lit.composerData \o Id2
Key3 == Lit.composerData \o Id3
Key4 == Lit.composerData \o <<"y">>
Key5 == Lit.composerData \o <<"w">>

\* rows the loop skips: no value, empty value, text without the identifier,
\* text JSON.parse rejects, a record without a conversation
RejectedRows ==
    { Row(Key5, v[1], v[2], v[3], FullData(v[4], MaxMsgs, <<>>, <<>>, 0, NoMap, NoMap)) :
        v \in { <<FALSE, <<>>, FALSE, FALSE>>, <<TRUE, <<>>, FALSE, FALSE>>,
                <<TRUE, Str.noid, TRUE, TRUE>>, <<TRUE, Str.xid, FALSE, FALSE>>,
                <<TRUE, Str.xid, TRUE, FALSE>> } }

\* a record whose conversation is truthy but is not a list, as in
\* {"conversation": {}}: it passes the test !fullData.conversation
NotIterable(fullData) == [fullData EXCEPT !.iterable = FALSE]

NotIterableRows ==
    { Row(Key5, TRUE, Str.xid, TRUE,
          NotIterable(FullData(TRUE, 0, <<>>, <<>>, 0, NoMap, NoMap))) }

\* rows the loop accepts
AcceptedRows ==
    { Row(Key1, TRUE, Str.id, TRUE, FullData(TRUE, 1, <<>>, <<>>, 0, SmallAndLarge, NoMap)),
      Row(Key2, TRUE, Str.xid, TRUE, FullData(TRUE, 1, <<>>, <<>>, 0, SmallAndLarge, NoMap)),
      Row(Key3, TRUE, Str.id, TRUE,
          FullData(TRUE, MaxMsgs, <<>>, Str.a_space_b, 1000, NoMap, NoMap)),
      Row(Key4, TRUE, Str.xid, TRUE,
          FullData(TRUE, MaxMsgs, Id3, Str.a_slash_b, 1500, NoMap, NoMap)),
      Row(Key4, TRUE, Str.id, TRUE, FullData(TRUE, 0, <<>>, <<>>, 0, NoMap, NoMap)) }

ExportRows == RejectedRows \cup NotIterableRows \cup AcceptedRows

Tables == {[kind |-> "absent", n |-> 0], [kind |-> "error", n |-> 0]}
          \cup {[kind |-> "ok", n |-> n] : n \in 0..MaxRows}

\* ------------------------------------------------------------------------
\* Specification of the export call
\* ------------------------------------------------------------------------
InitExport ==
    /\ pc = "start"
    /\ queriedTable = <<>>
    /\ rowsLeft = 0
    /\ usedKeys = {}
    /\ row = NoRow
    /\ msgsLeft = 0
    /\ messageIndex = 1
    /\ hasNonEmptyMessages = FALSE
    /\ mainLogContentLines = <<>>
    /\ hasDetailFiles = FALSE
    /\ detailDirEnsured = FALSE
    /\ detailWritePromises = <<>>
    /\ files = <<>>
    /\ dirs = {}
    /\ savedFilePaths = <<>>
    /\ outcome = "running"
    /\ processed = <<>>
    /\ rowLog = <<>>
    /\ exports = <<>>
    /\ queries = <<>>
    /\ remapped = <<>>

Init ==
    /\ InitExport
    /\ ext = <<>>
    /\ projectIdentifier = Str.id
    /\ itemTable \in Tables
    /\ kvTable \in Tables

NextRowExport == NextRow(ExportRows)

ProcessMessageExport == ProcessMessage(ExportBubbles)

Next ==
    \/ QueryTables
    \/ NextRowExport
    \/ ProcessMessageExport
    \/ FinishConversation
    \/ WriteMain
    \/ SettleWrite
    \/ AwaitDetails
    \/ Return

Spec == Init /\ [][Next]_vars


\* ------------------------------------------------------------------------
\* Specification of the rendering of one conversation: one accepted row,
\* messages of every role and flag, with text, summary, linter errors and
\* capability invocations that resolve (small, at the threshold, large), dangle
\* or are empty; the record's tool-call mapping is present or absent.
\* ------------------------------------------------------------------------

\* t1: serialization of detailThreshold characters; t2: one character fewer;
\* t3: short, with a name, a long result and an error; t4 is in no mapping
RenderToolMap ==
    [present |-> TRUE,
     map |-> (Str.t1 :> ToolDataOfLength(Str.t1, detailThreshold))
             @@ (Str.t2 :> ToolDataOfLength(Str.t2, detailThreshold - 1))
             @@ (Str.t3 :> ToolCallData(Str.t3, Str.hi, <<>>, Repeat("r", 151), Str.x))]

Call(id) == ToolCallInfo(id, FALSE)
EmptyCall == ToolCallInfo(<<>>, FALSE)
ExtraOnlyCall == ToolCallInfo(<<>>, TRUE)

LinterNoErrors == <<[relativeWorkspacePath |-> <<>>, errors |-> <<>>]>>
LinterTwoErrors == <<[relativeWorkspacePath |-> Str.x, errors |-> <<Str.hi, <<>>>>]>>

\* an assistant message that is not transient
Ai(text, summary, hasCaps, caps, lint) ==
    Bubble(2, FALSE, FALSE, text, summary, hasCaps, caps, <<>>, lint)

RenderBubbles ==
    { \* user, unknown role
      Bubble(1, FALSE, FALSE, Str.hi, <<>>, FALSE, <<>>, <<>>, <<>>),
      Bubble(1, FALSE, FALSE, <<>>, <<>>, FALSE, <<>>, <<>>, <<>>),
      Bubble(3, FALSE, FALSE, Str.hi, <<>>, FALSE, <<>>, <<>>, <<>>),
      \* transient, of either flag and role, with content of every kind
      Bubble(1, TRUE, FALSE, Str.hi, <<>>, FALSE, <<>>, <<>>, <<>>),
      Bubble(2, FALSE, TRUE, Str.hi, <<>>, FALSE, <<>>, <<>>, <<>>),
      Bubble(2, TRUE, FALSE, <<>>, <<>>, TRUE, <<Call(Str.t1)>>, <<>>, <<>>),
      Bubble(2, FALSE, TRUE, <<>>, Str.two_lines, TRUE, <<Call(Str.t4)>>, <<>>, LinterTwoErrors),
      \* assistant: no content, text only
      Ai(<<>>, <<>>, FALSE, <<>>, <<>>),
      Ai(Str.blank, <<>>, FALSE, <<>>, <<>>),
      Ai(Str.hi, <<>>, FALSE, <<>>, <<>>),
      \* assistant: summary and linter errors
      Ai(<<>>, Str.two_lines, FALSE, <<>>, <<>>),
      Ai(Str.hi, Str.two_lines, FALSE, <<>>, <<>>),
      Ai(<<>>, <<>>, FALSE, <<>>, LinterNoErrors),
      Ai(<<>>, <<>>, FALSE, <<>>, LinterTwoErrors),
      Ai(<<>>, Str.two_lines, TRUE, <<Call(Str.t2)>>, LinterTwoErrors) }
    \cup
    { \* assistant: capability invocations, with and without text
      Ai(text, <<>>, TRUE, caps, <<>>) :
        text \in {<<>>, Str.hi},
        caps \in { <<>>, <<Call(Str.t1)>>, <<Call(Str.t2)>>, <<Call(Str.t3)>>,
                   <<Call(Str.t4)>>, <<EmptyCall>>, <<ExtraOnlyCall>>,
                   <<Call(Str.t4), Call(Str.t1)>>, <<EmptyCall, Call(Str.t4)>> } }

RenderRows ==
    { Row(Key1, TRUE, Str.id, TRUE,
          FullData(TRUE, n, <<>>, <<>>, 0, toolMap, NoMap)) :
        n \in 0..MaxMsgs, toolMap \in {NoMap, RenderToolMap} }

InitRender ==
    /\ InitExport
    /\ ext = <<>>
    /\ projectIdentifier = Str.id
    /\ itemTable = [kind |-> "ok", n |-> 1]
    /\ kvTable = [kind |-> "absent", n |-> 0]

NextRowRender == NextRow(RenderRows)

ProcessMessageRender == ProcessMessage(RenderBubbles)

NextRender ==
    \/ QueryTables
    \/ NextRowRender
    \/ ProcessMessageRender
    \/ FinishConversation
    \/ WriteMain
    \/ SettleWrite
    \/ AwaitDetails
    \/ Return

SpecRender == InitRender /\ [][NextRender]_vars


\* ------------------------------------------------------------------------
\* Specification of code-block resolution: one accepted row whose record has
\* no code-content mapping or one lookup key with up to MaxCands candidates,
\* and one assistant message with code-block references.
\* ------------------------------------------------------------------------
CodeBlockMeta(external, fsPath, version, codeBlockIdx, languageId, content) ==
    [external |-> external, fsPath |-> fsPath, version |-> version,
     codeBlockIdx |-> codeBlockIdx, languageId |-> languageId, content |-> content]

CodeBlockDetails(fsPath, version, content, languageId, status, codeBlockIdx) ==
    [fsPath |-> fsPath, version |-> version, content |-> content,
     languageId |-> languageId, status |-> status, codeBlockIdx |-> codeBlockIdx]


\* the candidate of version v and block index idx (-1: none); its content
\* names both, so that the candidate chosen can be read off the side-file
Candidate(v, idx) ==
    CodeBlockDetails((IF idx = -1 THEN <<>> ELSE IF v = 0 THEN Str.a_py ELSE Str.n),
                     v, <<"c", "v", Digit(v), "i", Digit(idx + 1)>>, Str.py,
                     (IF v = 0 THEN Str.accepted ELSE <<>>), idx)

Candidates == { Candidate(v, idx) : v \in {0, 1}, idx \in {-1, 0, 1} }

\* the sequences over S of length at most n
RECURSIVE SeqsUpTo(_, _)
SeqsUpTo(S, n) ==
    IF n = 0 THEN {<<>>}
    ELSE SeqsUpTo(S, n - 1)
         \cup {Append(q, x) : q \in {r \in SeqsUpTo(S, n - 1) : Len(r) = n - 1}, x \in S}

CodeMaps == {NoMap}
            \cup { [present |-> TRUE, map |-> (Str.a_py :> list)] :
                     list \in SeqsUpTo(Candidates, MaxCands) }

\* embedded contents at both sides of the two limits of the inline rule
LinesOf(n) == [i \in 1..(2 * n - 1) |-> IF i % 2 = 1 THEN "x" ELSE "\n"]

EmbeddedContents == { <<>>, Repeat("x", detailThreshold - 1), Repeat("x", detailThreshold),
                      LinesOf(10), LinesOf(11) }

BlockRefs ==
    { CodeBlockMeta(uri[1], uri[2], version, idx, lang, content) :
        uri \in { <<Str.a_py, <<>>>>, <<<<>>, Str.a_py>>, <<<<>>, <<>>>> },
        version \in {-1, 0, 1}, idx \in {-1, 0, 1},
        lang \in {<<>>, Str.py}, content \in EmbeddedContents }

CodeBubbles ==
    { Bubble(2, FALSE, FALSE, <<>>, <<>>, FALSE, <<>>, <<ref>>, <<>>) : ref \in BlockRefs }
    \cup
    { Bubble(2, FALSE, FALSE, Str.hi, <<>>, FALSE, <<>>,
             << CodeBlockMeta(Str.a_py, <<>>, 0, -1, <<>>, <<>>),
                CodeBlockMeta(<<>>, <<>>, -1, -1, Str.py, content) >>, <<>>) :
        content \in EmbeddedContents }
    \cup
    \* two references that declare the same block index, both with large
    \* embedded content
    { Bubble(2, FALSE, FALSE, <<>>, <<>>, FALSE, <<>>,
             << CodeBlockMeta(<<>>, Str.a_py, -1, 0, Str.py, Repeat("x", detailThreshold)),
                CodeBlockMeta(<<>>, Str.n, -1, 0, Str.py, LinesOf(11)) >>, <<>>) }

CodeRows ==
    { Row(Key1, TRUE, Str.id, TRUE, FullData(TRUE, 1, <<>>, <<>>, 0, NoMap, codeMap)) :
        codeMap \in CodeMaps }

NextRowCode == NextRow(CodeRows)

ProcessMessageCode == ProcessMessage(CodeBubbles)

NextCode ==
    \/ QueryTables
    \/ NextRowCode
    \/ ProcessMessageCode
    \/ FinishConversation
    \/ WriteMain
    \/ SettleWrite
    \/ AwaitDetails
    \/ Return

SpecCode == InitRender /\ [][NextCode]_vars

\* ------------------------------------------------------------------------
\* Specification of remapScriptExtension as a function: an extension is drawn,
\* the function is applied to it and then to its own result.
\* ------------------------------------------------------------------------
ExtChars == {"l", "o", "g", "t", "x", "m", "d", "c", "s", "v", "L", "M", "p"}

Extensions == {<<>>} \cup { <<".">> \o e : e \in SeqsUpTo(ExtChars, MaxExtLen) \ {<<>>} }

InitRemap ==
    /\ InitExport
    /\ ext \in Extensions
    /\ projectIdentifier = Str.id
    /\ itemTable = [kind |-> "absent", n |-> 0]
    /\ kvTable = [kind |-> "absent", n |-> 0]

Remap ==
    /\ Len(remapped) < MaxApply
    /\ remapped' = Append(remapped,
                          remapScriptExtension(IF remapped = <<>> THEN ext
                                               ELSE remapped[Len(remapped)]))
    /\ UNCHANGED << pc, inputVars, queriedTable, rowsLeft, usedKeys, row, convVars, files,
                    dirs, savedFilePaths, outcome, rowLog, exports, queries, ext >>

NextRemap == Remap

SpecRemap == InitRemap /\ [][NextRemap]_vars

\* ========================================================================
\* Properties
\* ========================================================================
HasIndex(line) == line.index # 0

\* the numbers printed in "[n]" in a list of transcript lines, in order
PrintedIndices(lines) == [i \in 1..Len(SelectSeq(lines, HasIndex)) |->
                             SelectSeq(lines, HasIndex)[i].index]

OneToN(n) == [i \in 1..n |-> i]

LastVisited == processed[1]

MainFileWritten == pc = "await" /\ mainLogFilePath(row) \in DOMAIN files

\* C1: in every conversation record the indices printed on the visible
\* messages are exactly 1, 2, ..., n in message order, in the transcript being
\* assembled and in the transcript file written; a message that renders lines
\* prints the current index once, on its first line, and advances it by one; a
\* message that renders no line leaves the index as it is.
C1_ContiguousIndices ==
    /\ pc \in {"msgs", "writeMain", "await"} =>
          /\ PrintedIndices(mainLogContentLines) = OneToN(messageIndex - 1)
    /\ MainFileWritten =>
          PrintedIndices(files[mainLogFilePath(row)]) = OneToN(messageIndex - 1)
    /\ processed # <<>> =>
          /\ LastVisited.formatted = <<>> => LastVisited.after.index = LastVisited.before.index
          /\ LastVisited.formatted # <<>> =>
                /\ LastVisited.after.index = LastVisited.before.index + 1
                /\ PrintedIndices(LastVisited.formatted) = <<LastVisited.before.index>>
                /\ LastVisited.formatted[1].index = LastVisited.before.index

\* C1 witness: a transcript file was written in which the second message of
\* the record carries index 1 because the first rendered no line.
C1_Witness ==
    /\ MainFileWritten
    /\ row.fullData.nMsgs = 2
    /\ processed # <<>>
    /\ LastVisited.before.index = 1
    /\ LastVisited.formatted # <<>>
    /\ PrintedIndices(files[mainLogFilePath(row)]) = <<1>>

\* ---- capability invocations of the message visited last ----
VisitedAi == processed # <<>> /\ ~IsTransient(LastVisited.msg) /\ LastVisited.msg.type = 2

CallsOf(msg) == IF msg.hasCapabilitiesRan THEN msg.capabilitiesRan ELSE <<>>

CallCount(msg, id) ==
    Cardinality({i \in 1..Len(CallsOf(msg)) : CallsOf(msg)[i].toolCallId = id})

LinesWhere(lines, Test(_)) == {i \in 1..Len(lines) : Test(lines[i])}

ToolRefLines(lines, id) ==
    LinesWhere(lines, LAMBDA l : l.type = "tool_ref" /\ l.parts[2] = id)

ToolInlineHeaders(lines, id) ==
    LinesWhere(lines, LAMBDA l : l.type = "tool_inline" /\ Len(l.parts) = 3
                                 /\ l.parts[2] = id /\ l.parts[3] = Lit.INLINE_DETAILS)

ToolCallFile(r, id) == pathJoin(chatDirPath(r), Lit.tool_call_ \o id \o Lit.json)

\* C2: for every capability invocation of a rendered assistant message whose
\* identifier is in the record's tool-call mapping, with L the length of the
\* serialized detail: L < 300 gives an inline header and no reference line (and
\* no inline line carries a payload); L >= 300 gives exactly one reference line
\* per invocation, whose payload is the file tool_call_<id>.json holding the
\* very serialization that was measured; a side-file that was written holds
\* that payload.
C2_ToolPlacement ==
    /\ (VisitedAi /\ row.fullData.bubbleDataMap.present) =>
          \A id \in DOMAIN row.fullData.bubbleDataMap.map :
             LET n   == CallCount(LastVisited.msg, id)
                 str == JSONstringify(row.fullData.bubbleDataMap.map[id])
                 fl  == LastVisited.formatted
             IN  n > 0 =>
                   IF Len(str) < 300
                   THEN /\ Cardinality(ToolInlineHeaders(fl, id)) = n
                        /\ ToolRefLines(fl, id) = {}
                   ELSE /\ Cardinality(ToolRefLines(fl, id)) = n
                        /\ ToolInlineHeaders(fl, id) = {}
                        /\ \A i \in ToolRefLines(fl, id) :
                              fl[i].details = Details(ToolCallFile(row, id), str)
    /\ processed # <<>> =>
          \A i \in 1..Len(LastVisited.formatted) :
             LastVisited.formatted[i].type = "tool_inline" =>
                LastVisited.formatted[i].details = {}
    /\ \A i \in 1..Len(detailWritePromises) :
          detailWritePromises[i].state = "written" =>
             files[detailWritePromises[i].filePath] = <<detailWritePromises[i].data>>

\* C2 witness: a detail of exactly 300 characters was rendered as a reference
\* and its side-file was written with those 300 characters.
C2_Witness ==
    /\ VisitedAi
    /\ row.fullData.bubbleDataMap.present
    /\ CallCount(LastVisited.msg, Str.t1) = 1
    /\ Len(JSONstringify(row.fullData.bubbleDataMap.map[Str.t1])) = 300
    /\ ToolCallFile(row, Str.t1) \in DOMAIN files
    /\ files[ToolCallFile(row, Str.t1)] = <<JSONstringify(row.fullData.bubbleDataMap.map[Str.t1])>>
    /\ Len(files[ToolCallFile(row, Str.t1)][1]) = 300

\* C4: a message with isThought or isCapabilityIteration set adds no line to
\* the transcript, issues no side-file write, creates no details directory and
\* leaves the visible index unchanged, whatever its role, content and position.
C4_TransientInvisible ==
    (processed # <<>> /\ (LastVisited.msg.isThought \/ LastVisited.msg.isCapabilityIteration)) =>
        /\ LastVisited.formatted = <<>>
        /\ LastVisited.after = LastVisited.before

\* C4 witness: a capability-iteration assistant message with a summary, linter
\* errors and a capability invocation was visited after a visible message.
C4_Witness ==
    /\ processed # <<>>
    /\ LastVisited.msg.isCapabilityIteration
    /\ LastVisited.msg.type = 2
    /\ LastVisited.msg.capabilitiesRan # <<>>
    /\ LastVisited.before.index = 2

\* C6 (as claimed): in a rendered assistant message every non-empty capability
\* invocation reference without a matching detail gives exactly one "details
\* not found" line, whether the record's mapping lacks the identifier or is
\* absent altogether; an empty reference gives none.
DanglingCalls(msg, bubbleDataMap) ==
    {i \in 1..Len(CallsOf(msg)) :
        /\ CallsOf(msg)[i].toolCallId # <<>> \/ CallsOf(msg)[i].extra
        /\ ~(bubbleDataMap.present /\ CallsOf(msg)[i].toolCallId \in DOMAIN bubbleDataMap.map)}

C6_DanglingReferenceShown ==
    VisitedAi =>
        Cardinality(LinesWhere(LastVisited.formatted, LAMBDA l : l.type = "capability_info"))
            = Cardinality(DanglingCalls(LastVisited.msg, row.fullData.bubbleDataMap))


\* ---- rows ----
\* C5: a row leads to a transcript only if its raw text contains the project
\* identifier as a substring; a row without it is skipped and changes nothing,
\* whether or not it would parse; a row that contains it anywhere and parses to
\* a record with a conversation enters the message loop, and is exported once
\* its visit is complete if at least one message rendered.
C5_SubstringFilter ==
    /\ \A i \in 1..Len(exports) : includes(exports[i].row.rawValue, projectIdentifier)
    /\ \A i \in 1..Len(rowLog) :
          LET e == rowLog[i]
          IN  /\ ~includes(e.row.rawValue, projectIdentifier) =>
                    /\ ~e.accepted /\ ~e.exported
                    /\ e.after = e.before
              /\ (/\ e.row.hasValue
                  /\ includes(e.row.rawValue, projectIdentifier)
                  /\ e.row.parses
                  /\ e.row.fullData.hasConversation) =>
                    /\ e.accepted
                    /\ (e.done /\ e.rendered) =>
                          /\ e.exported
                          /\ mainLogFilePath(e.row) \in DOMAIN e.after.files
                          /\ e.after.saved = Append(e.before.saved, mainLogFilePath(e.row))

\* C5 witness: a row that would parse but lacks the identifier was skipped, and
\* a row holding the identifier after other text was exported.
C5_Witness ==
    /\ Len(rowLog) = 2
    /\ rowLog[1].row.parses /\ rowLog[1].row.fullData.hasConversation
    /\ ~includes(rowLog[1].row.rawValue, projectIdentifier)
    /\ rowLog[2].row.rawValue = Str.xid
    /\ rowLog[2].exported

\* C9 (as claimed): two accepted records of one call are never written to the
\* same main transcript path, and the returned list has no duplicate.
C9_DistinctTranscripts ==
    /\ \A i, j \in 1..Len(exports) : i # j => exports[i].path # exports[j].path
    /\ \A i, j \in 1..Len(savedFilePaths) : i # j => savedFilePaths[i] # savedFilePaths[j]

CandidatesFor(blockMeta, codeBlockData) ==
    LET searchKey == IF blockMeta.external # <<>> THEN blockMeta.external ELSE blockMeta.fsPath
    IN  IF codeBlockData.present /\ searchKey # <<>> /\ searchKey \in DOMAIN codeBlockData.map
        THEN codeBlockData.map[searchKey]
        ELSE <<>>

CodeRefLines(lines) == LinesWhere(lines, LAMBDA l : l.type = "code_ref")

\* C3 (as claimed): when a reference declares a version and a block index and
\* its key holds two candidates of that version with different block indices,
\* one of them the reference's, the candidate rendered is the one with the
\* reference's block index, whatever the order of the two.
C3_IndexMatchWins ==
    (/\ VisitedAi
     /\ Len(LastVisited.msg.codeBlocks) = 1
     /\ LastVisited.msg.codeBlocks[1].version # -1
     /\ LastVisited.msg.codeBlocks[1].codeBlockIdx # -1) =>
        LET ref   == LastVisited.msg.codeBlocks[1]
            cands == CandidatesFor(ref, row.fullData.codeBlockData)
        IN  (/\ Len(cands) = 2
             /\ cands[1].version = ref.version /\ cands[2].version = ref.version
             /\ cands[1].codeBlockIdx # -1 /\ cands[2].codeBlockIdx # -1
             /\ cands[1].codeBlockIdx # cands[2].codeBlockIdx
             /\ \E k \in 1..2 : cands[k].codeBlockIdx = ref.codeBlockIdx) =>
               \E i \in CodeRefLines(LastVisited.formatted) :
                  \E k \in 1..2 :
                     /\ cands[k].codeBlockIdx = ref.codeBlockIdx
                     /\ \E d \in LastVisited.formatted[i].details : d.data = cands[k].content

\* C7 (as claimed): the extension of every side-file path of a conversation is
\* in the allow-list or is an extension with 'txt' appended.
EndsWithTxt(e) == Len(e) > Len(txt) + 1 /\ SubSeq(e, Len(e) - Len(txt) + 1, Len(e)) = txt

RemappedExtension(filePath) ==
    extname(filePath) \in allowed \/ EndsWithTxt(extname(filePath))

C7_SideFileExtensions ==
    /\ processed # <<>> =>
          \A i \in 1..Len(LastVisited.formatted) :
             \A d \in LastVisited.formatted[i].details : RemappedExtension(d.filePath)
    /\ \A i \in 1..Len(detailWritePromises) :
          RemappedExtension(detailWritePromises[i].filePath)


\* ---- remapScriptExtension ----
\* C8 (as claimed): .log, .txt, .md and .csv are returned unchanged and every
\* other non-empty extension .ext becomes .exttxt.
C8_AllowListExact ==
    remapped # <<>> =>
        IF ext \in allowed THEN \A i \in 1..Len(remapped) : remapped[i] = ext
        ELSE ext # <<>> => remapped[1] = ext \o txt

\* C8 (amended): an extension whose lower-case form is .log, .txt, .md or .csv
\* is returned unchanged, so applying the function again and again gives the
\* same extension; every other non-empty extension .ext becomes .exttxt.
C8_AllowListIgnoringCase ==
    remapped # <<>> =>
        IF toLowerCase(ext) \in allowed THEN \A i \in 1..Len(remapped) : remapped[i] = ext
        ELSE ext # <<>> => remapped[1] = ext \o txt

\* C8 witness: .Log, which is in the allow-list only up to case, was remapped
\* MaxApply times.
C8_Witness ==
    /\ ext = <<".", "L", "o", "g">>
    /\ Len(remapped) = MaxApply
    /\ remapped[Len(remapped)] = ext

\* ---- side-file writes in flight ----
PendingWrites == {i \in 1..Len(detailWritePromises) : detailWritePromises[i].state = "pending"}

\* C11: every side-file write issued for a conversation has settled (written,
\* or failed and logged) before the loop takes the next row and before the
\* call returns; hence the writes in flight at any time belong to the one
\* conversation being processed.
C11_WritesSettledBeforeNextRow ==
    /\ pc = "rows" => PendingWrites = {}
    /\ outcome = "returned" => PendingWrites = {}
    /\ PendingWrites # {} =>
          /\ pc \in {"msgs", "writeMain", "await", "done"}
          /\ rowLog # <<>> /\ rowLog[Len(rowLog)].row = row
          /\ \A i \in PendingWrites :
                Take(detailWritePromises[i].filePath, Len(chatDirPath(row))) = chatDirPath(row)

\* C11 witness: the loop is about to take a further row after a conversation
\* whose side-file write was issued and has settled.
C11_Witness ==
    /\ pc = "rows"
    /\ rowsLeft > 0
    /\ detailWritePromises # <<>>
    /\ \E i \in 1..Len(detailWritePromises) : detailWritePromises[i].state = "written"

\* ---- the rows whose transcript was written, in processing order ----
ExportedRows == SelectSeq(rowLog, LAMBDA e : e.exported)

WrittenPaths == [i \in 1..Len(ExportedRows) |-> mainLogFilePath(ExportedRows[i].row)]

\* C12: the call ends in exactly one way: once it has returned or thrown, its
\* outcome and its list never change again.  When it returns, the list holds
\* the main transcript paths written during the call, one entry per transcript
\* written, in the order in which the rows were processed, and each of them
\* names a transcript file.
C12_ReturnsWrittenPathsInOrder ==
    /\ [][outcome # "running" =>
              (outcome' = outcome /\ savedFilePaths' = savedFilePaths)]_vars
    /\ [](outcome = "returned" =>
              /\ savedFilePaths = WrittenPaths
              /\ Len(savedFilePaths) = Len(exports)
              /\ \A i \in 1..Len(savedFilePaths) :
                    /\ savedFilePaths[i] \in DOMAIN files
                    /\ savedFilePaths[i] = exports[i].path)

\* C12 witness: the call returned two different paths, the transcript of the
\* row processed first in first place.
C12_Witness ==
    /\ outcome = "returned"
    /\ Len(savedFilePaths) = 2
    /\ savedFilePaths[1] # savedFilePaths[2]
    /\ savedFilePaths[1] = mainLogFilePath(rowLog[1].row)

\* ------------------------------------------------------------------------
\* C13: a row whose value is missing or empty, whose text does not parse, or
\* whose record has no list of messages leaves no transcript and no side
\* file, and the call goes on with the rows after it: the row is closed with
\* the files as they were before it, and the call is not ended by it.
\* ------------------------------------------------------------------------
NoMessageSequence(r) ==
    \/ ~r.hasValue
    \/ r.rawValue = <<>>
    \/ safeJsonParse(r) = {}
    \/ ~r.fullData.hasConversation
    \/ ~Iterable(r.fullData)

C13_BadRowSkipped ==
    \A i \in 1..Len(rowLog) :
        NoMessageSequence(rowLog[i].row)
            => /\ rowLog[i].done
               /\ ~rowLog[i].exported
               /\ rowLog[i].after = rowLog[i].before
               /\ (i = Len(rowLog) => outcome # "thrown")

\* ------------------------------------------------------------------------
\* C14: cursorDiskKV is queried exactly when ItemTable is absent or has no
\* matching row; the rows of a run are those of one table only (as many rows
\* are visited as the table that answered holds); with both tables absent the
\* call visits no row, does not fail and returns an empty list.
\* ------------------------------------------------------------------------
ItemTableEmpty == itemTable.kind = "absent" \/ (itemTable.kind = "ok" /\ itemTable.n = 0)

RowsOfRun ==
    IF itemTable.kind = "ok" /\ itemTable.n > 0 THEN itemTable.n
    ELSE IF ItemTableEmpty /\ kvTable.kind = "ok" THEN kvTable.n
    ELSE 0

C14_FallbackTable ==
    pc # "start" =>
        /\ (\E i \in 1..Len(queries) : queries[i] = Lit.cursorDiskKV) <=> ItemTableEmpty
        /\ Len(rowLog) + rowsLeft = RowsOfRun
        /\ (queriedTable = Lit.ItemTable /\ rowLog # <<>>) => itemTable.n = RowsOfRun
        /\ (queriedTable = Lit.cursorDiskKV) => (kvTable.kind = "ok" /\ ItemTableEmpty)
        /\ (itemTable.kind = "absent" /\ kvTable.kind = "absent")
               => /\ outcome # "thrown"
                  /\ rowLog = <<>> /\ rowsLeft = 0
                  /\ (pc = "done" => outcome = "returned" /\ savedFilePaths = <<>>)

C14_Witness ==
    /\ pc = "done" /\ outcome = "returned"
    /\ itemTable.kind = "absent" /\ kvTable.kind = "ok" /\ kvTable.n > 0
    /\ queries = <<Lit.ItemTable, Lit.cursorDiskKV>>
    /\ queriedTable = Lit.cursorDiskKV
    /\ Len(rowLog) = kvTable.n

\* ------------------------------------------------------------------------
\* C15: the header of a written transcript holds the 'Details Directory'
\* line exactly when a side file of that conversation was produced. Looked at
\* when the row has just been closed: the transcript on disk has the line iff
\* one of the side-file writes of the row has written its file.
\* ------------------------------------------------------------------------
HasDetailsLine(lines, r) == \E i \in 1..Len(lines) : lines[i] = DetailsDirectoryLine(r)

SideFileProduced == \E i \in 1..Len(detailWritePromises) : detailWritePromises[i].state = "written"

RowJustExported ==
    /\ pc \in {"rows", "done"}
    /\ outcome # "thrown"
    /\ rowLog # <<>>
    /\ rowLog[Len(rowLog)].done
    /\ rowLog[Len(rowLog)].exported

C15_DetailsLineIffSideFile ==
    RowJustExported =>
        (HasDetailsLine(files[mainLogFilePath(row)], row) <=> SideFileProduced)

\* ------------------------------------------------------------------------
\* C16: for a message with one code-block reference in a record that has a
\* code-content mapping: a reference resolved from the mapping is rendered as
\* one file reference whose payload is the candidate's content; a reference
\* with embedded content only is rendered inline (no payload) when the content
\* has fewer than 300 characters and at most 10 lines, and as one file
\* reference with the content as payload otherwise; a reference with neither
\* renders one 'not found' line without payload.
\* ------------------------------------------------------------------------
OfType(lines, type) == LinesWhere(lines, LAMBDA l : l.type = type)

WithPayload(lines) == LinesWhere(lines, LAMBDA l : l.details # {})

LineCount(content) == Cardinality({i \in 1..Len(content) : content[i] = "\n"}) + 1

OneFileReference(lines, content) ==
    /\ Cardinality(OfType(lines, "code_ref")) = 1
    /\ WithPayload(lines) = OfType(lines, "code_ref")
    /\ \A i \in WithPayload(lines) : \A d \in lines[i].details : d.data = content
    /\ OfType(lines, "code_inline") = {}
    /\ OfType(lines, "code_not_found") = {}

OneCodeBlockVisited ==
    /\ VisitedAi
    /\ Len(LastVisited.msg.codeBlocks) = 1
    /\ row.fullData.codeBlockData.present

C16_CodeBlockPlacement ==
    OneCodeBlockVisited =>
        LET ref   == LastVisited.msg.codeBlocks[1]
            lines == LastVisited.formatted
            found == ResolveCodeBlock(ref, row.fullData.codeBlockData)
        IN  IF found # {}
            THEN \A cb \in found : OneFileReference(lines, cb.content)
            ELSE IF ref.content # <<>>
            THEN IF Len(ref.content) < 300 /\ LineCount(ref.content) <= 10
                 THEN /\ Cardinality(OfType(lines, "code_inline")) = 2
                      /\ WithPayload(lines) = {}
                      /\ OfType(lines, "code_ref") = {}
                      /\ OfType(lines, "code_not_found") = {}
                 ELSE OneFileReference(lines, ref.content)
            ELSE /\ Cardinality(OfType(lines, "code_not_found")) = 1
                 /\ WithPayload(lines) = {}
                 /\ OfType(lines, "code_ref") = {}
                 /\ OfType(lines, "code_inline") = {}

\* C16 witness: a reference without candidate whose embedded content has
\* exactly 300 characters on one line was rendered as a file reference
C16_Witness ==
    /\ OneCodeBlockVisited
    /\ ResolveCodeBlock(LastVisited.msg.codeBlocks[1], row.fullData.codeBlockData) = {}
    /\ Len(LastVisited.msg.codeBlocks[1].content) = 300
    /\ LineCount(LastVisited.msg.codeBlocks[1].content) = 1
    /\ OfType(LastVisited.formatted, "code_ref") # {}

\* ------------------------------------------------------------------------
\* C17: in one conversation two rendered lines whose side-file payloads
\* differ target different paths; no two pending side-file writes target the
\* same file; once the writes of the row have all been written, the file of
\* every write holds the payload of that write.
\* ------------------------------------------------------------------------
PayloadsOf(lines) == UNION {lines[i].details : i \in 1..Len(lines)}

C17_DistinctSideFilePaths ==
    /\ processed # <<>> =>
          \A d1, d2 \in PayloadsOf(LastVisited.formatted) :
             d1.data # d2.data => d1.filePath # d2.filePath
    /\ \A i, j \in 1..Len(detailWritePromises) :
          (/\ i # j
           /\ detailWritePromises[i].state = "pending"
           /\ detailWritePromises[j].state = "pending")
              => detailWritePromises[i].filePath # detailWritePromises[j].filePath
    /\ (\A i \in 1..Len(detailWritePromises) : detailWritePromises[i].state = "written")
          => \A i \in 1..Len(detailWritePromises) :
                files[detailWritePromises[i].filePath] = <<detailWritePromises[i].data>>

\* ------------------------------------------------------------------------
\* C18: for a reference, with or without a declared block index, and the
\* candidates under its lookup key, the candidate resolved is the first of
\* the list whose version is the reference's (0 when it declares none), and
\* it is this candidate's content that the rendered file reference carries;
\* nothing is resolved exactly when no candidate has that version.
\* ------------------------------------------------------------------------
VersionOf(ref) == IF ref.version = -1 THEN 0 ELSE ref.version

SameVersion(ref, cands) == {k \in 1..Len(cands) : cands[k].version = VersionOf(ref)}

====
